---- MODULE Spec2Model ----
(***************************************************************************)
(* Model of iso-rust (src/main.rs): an isometric tile renderer.            *)
(*                                                                         *)
(* f32 values are represented exactly as a count of halves: the integer h  *)
(* stands for the float h / 2.  Every float the program computes from the  *)
(* inputs considered here is a multiple of 0.5 of magnitude far below      *)
(* 2^24, so f32 arithmetic on them is exact.                                *)
(***************************************************************************)
EXTENDS Integers, Sequences, FiniteSets, TLC

VARIABLES
    desc,       \* the map description read from ./resources/map.json
    phase,      \* "boot" | "running" | "load_panic" | "draw_panic" | "pure"
    camera,     \* GameState.camera
    map,        \* GameState.map (NoMap until Map::from_json returned)
    frame,      \* graphics commands issued by the latest call of draw
    prevFrame,  \* graphics commands issued by the call of draw before it
    resized,    \* size of the latest Resized event handled since the latest draw
    between,    \* size of the latest Resized event handled between the two latest draws
    tpc,        \* transform harness: next function to apply
    grid_in,    \* transform harness: Vec2<i32> given to cartesian_to_isometric
    iso,        \* transform harness: Vec2<f32> given to isometric_to_cartesian
    grid_out    \* transform harness: Vec2<i32> isometric_to_cartesian returned

vars == <<desc, phase, camera, map, frame, prevFrame, resized, between,
          tpc, grid_in, iso, grid_out>>

progVars == <<desc, phase, camera, map, frame, prevFrame, resized, between>>
pureVars == <<tpc, grid_in, iso, grid_out>>

----------------------------------------------------------------------------
(* Bounds *)

\* grid coordinates given to the transforms range over -MaxCoord..MaxCoord
MaxCoord == 100
\* tile codes a description's layer array may hold range over -1..MaxCode
MaxCode == 7

----------------------------------------------------------------------------
(* f32 and i32 arithmetic *)

\* n as f32
AsF32(n) == 2 * n

\* Rust integer division: truncates toward zero
TruncDiv(a, b) == IF a >= 0 THEN a \div b ELSE -((-a) \div b)

\* f as i32: the float-to-int cast truncates toward zero
AsI32(f) == TruncDiv(f, 2)

\* f / 2.0, for a float f that is a whole number (the only use the program makes)
HalfOf(f) == f \div 2

ISO_WIDTH == AsF32(64)
ISO_HEIGHT == AsF32(64)

\* a * b, for floats of which a is a whole number
MulF32(a, b) == (a \div 2) * b

Vec2(x, y) == <<x, y>>

Rectangle(x, y, width, height) == [x |-> x, y |-> y, width |-> width, height |-> height]

----------------------------------------------------------------------------
(* Coordinate transforms *)

\* cartesian_to_isometric with the sign of y slipped in the first component
cartesian_to_isometric_sum(cartesian_position) ==
    Vec2(AsF32(cartesian_position[1] + cartesian_position[2]),
         HalfOf(AsF32(cartesian_position[1] + cartesian_position[2])))

cartesian_to_isometric(cartesian_position) ==
    Vec2(AsF32(cartesian_position[1] - cartesian_position[2]),
         HalfOf(AsF32(cartesian_position[1] + cartesian_position[2])))

isometric_to_cartesian(isometric_position) ==
    Vec2(TruncDiv(AsI32(MulF32(AsF32(2), isometric_position[2]) + isometric_position[1]), 2),
         TruncDiv(AsI32(MulF32(AsF32(2), isometric_position[2]) - isometric_position[1]), 2))

----------------------------------------------------------------------------
(* Map descriptions: the inputs of Map::from_json *)

\* no value: an Option that is None, a sequence of no commands
None == <<>>

\* GameState.map before from_json has returned one
NoMap == [tiles |-> <<>>, map |-> <<>>]

\* image files that exist beside the description
ImageFiles == {"tiles.png"}

\* the layer array of the reference map: floor tiles inside a border
BorderGrid ==
    <<<<1, 2, 2, 2, 2, 3>>,
      <<4, 0, 0, 0, 0, 5>>,
      <<4, 0, 0, 0, 0, 5>>,
      <<4, 0, 0, 0, 0, 5>>,
      <<4, 0, 0, 0, 0, 5>>,
      <<6, 2, 2, 2, 2, 1>>>>

\* grid g with the cell of (0-based) row r and column c holding code k
GridWith(g, r, c, k) ==
    [i \in 1..Len(g) |->
        [j \in 1..Len(g[i]) |-> IF i = r + 1 /\ j = c + 1 THEN k ELSE g[i][j]]]

Codes == -1..MaxCode

\* a second cell that may hold a code past every registered one
SecondCells == {<<1, 2>>, <<4, 4>>}

Grids ==
    {GridWith(BorderGrid, r, c, k) : r \in 0..5, c \in 0..5, k \in Codes}
    \cup {GridWith(GridWith(BorderGrid, r, c, k), p[1], p[2], MaxCode + 2) :
            r \in 0..5, c \in 0..5, k \in Codes, p \in SecondCells}

TileData(clip, origin) == [clip |-> clip, origin |-> origin]

\* `tiles` mappings a description may carry: one that agrees with the
\* registry from_json builds, one that gives other clips and origins, and
\* one with fewer and further codes
TilesSame ==
    [k \in 0..6 |->
        TileData(IF k = 1 THEN Rectangle(AsF32(448), AsF32(192), AsF32(64), AsF32(64))
                 ELSE IF k = 3 THEN Rectangle(AsF32(512), AsF32(192), AsF32(64), AsF32(64))
                 ELSE Rectangle(AsF32(0), AsF32(0), AsF32(64), AsF32(64)),
                 [x |-> 0, y |-> 0])]

TilesAtlas ==
    [k \in 0..6 |->
        TileData(Rectangle(AsF32(64 * k), AsF32(0), AsF32(64), AsF32(64)),
                 [x |-> 0, y |-> IF k = 0 THEN 0 ELSE 32])]

TilesSparse ==
    [k \in {0, 1, 7} |->
        TileData(Rectangle(AsF32(64 * k), AsF32(64), AsF32(64), AsF32(64)),
                 [x |-> 0, y |-> 0])]

TileMappings == {TilesSame, TilesAtlas, TilesSparse}

Dimensions == {<<6, 6>>, <<5, 6>>, <<6, 7>>, <<12, 3>>}

MapData(image, tiles, width, height, m) ==
    [image |-> image, tiles |-> tiles, width |-> width, height |-> height, map |-> m]

Descriptions ==
    {MapData("tiles.png", TilesSame, 6, 6, g) : g \in Grids}
    \cup {MapData("tiles.png", t, d[1], d[2], g) :
            t \in TileMappings, d \in Dimensions,
            g \in {BorderGrid, GridWith(BorderGrid, 2, 3, MaxCode)}}
    \cup {MapData("absent.png", TilesSame, 6, 6, BorderGrid),
          MapData("tiles.png", TilesSame, -6, 6, BorderGrid),
          MapData("tiles.png", TilesSame, 6, 5, SubSeq(BorderGrid, 1, 5)),
          MapData("tiles.png", TilesSame, 7, 6,
                  [i \in 1..6 |-> Append(BorderGrid[i], 0)])}

\* serde_json::from_str::<MapData>: the usize fields take no negative number
\* and the [[i32; 6]; 6] field takes exactly six rows of six codes
Deserializes(d) ==
    /\ d.width >= 0
    /\ d.height >= 0
    /\ Len(d.map) = 6
    /\ \A i \in 1..Len(d.map) : Len(d.map[i]) = 6

----------------------------------------------------------------------------
(* Map::from_json *)

Tile(texture, clip, origin) == [texture |-> texture, clip |-> clip, origin |-> origin]

\* the registry from_json inserts, code by code
BuiltTiles(texture) ==
    [k \in 0..6 |->
        IF k = 1 THEN
            Tile(texture,
                 Rectangle(MulF32(AsF32(7), ISO_WIDTH), MulF32(AsF32(3), ISO_HEIGHT),
                           AsF32(64), AsF32(64)),
                 Vec2(AsF32(0), AsF32(0)))
        ELSE IF k = 3 THEN
            Tile(texture,
                 Rectangle(MulF32(AsF32(8), ISO_WIDTH), MulF32(AsF32(3), ISO_HEIGHT),
                           AsF32(64), AsF32(64)),
                 Vec2(AsF32(0), AsF32(0)))
        ELSE
            Tile(texture,
                 Rectangle(AsF32(0), AsF32(0), AsF32(64), AsF32(64)),
                 Vec2(AsF32(0), AsF32(0)))]

\* the value from_json returns, or NoMap where one of its unwraps panics
Map_from_json(d) ==
    IF ~Deserializes(d) THEN NoMap
    ELSE IF d.image \notin ImageFiles THEN NoMap
    ELSE [tiles |-> BuiltTiles(d.image), map |-> d.map]

----------------------------------------------------------------------------
(* Camera *)

\* Camera::update: the matrix translates by half the viewport less the position
Camera_update(c) ==
    [c EXCEPT !.matrix = Vec2(HalfOf(c.viewport_width) - c.position[1],
                              HalfOf(c.viewport_height) - c.position[2])]

Camera_set_viewport_size(c, width, height) ==
    [c EXCEPT !.viewport_width = width, !.viewport_height = height]

\* the camera GameState::new builds
NewCamera ==
    Camera_update(Camera_set_viewport_size(
        [position |-> Vec2(AsF32(32), AsF32(48)),
         viewport_width |-> AsF32(640), viewport_height |-> AsF32(480),
         matrix |-> Vec2(AsF32(0), AsF32(0))],
        AsF32(640), AsF32(480)))

----------------------------------------------------------------------------
(* Drawing *)

\* Tile::draw that passes the grid position on without projecting it
Tile_draw_unprojected(tile, x, y) ==
    [op |-> "draw",
     texture |-> tile.texture,
     position |-> Vec2(AsF32(x), AsF32(y)),
     origin |-> tile.origin,
     clip |-> tile.clip]

\* Tile::draw: the graphics::draw command it issues
Tile_draw(tile, x, y) ==
    [op |-> "draw",
     texture |-> tile.texture,
     position |-> cartesian_to_isometric(Vec2(x, y)),
     origin |-> tile.origin,
     clip |-> tile.clip]

\* the inner loop of draw, passing over a cell whose code is not registered
RECURSIVE draw_cols_skipping(_, _, _, _)
draw_cols_skipping(m, row, col, out) ==
    IF col = 6 \/ out.panic THEN out
    ELSE LET x == col * 32
             y == row * 32
             tile_index == m.map[row + 1][col + 1]
         IN IF tile_index \notin DOMAIN m.tiles
            THEN draw_cols_skipping(m, row, col + 1, out)
            ELSE draw_cols_skipping(m, row, col + 1,
                    [out EXCEPT !.cmds = Append(@, Tile_draw(m.tiles[tile_index], x, y))])

\* the inner loop of draw from column col on; indexing the registry with a
\* code it does not hold panics and ends the call
RECURSIVE draw_cols(_, _, _, _)
draw_cols(m, row, col, out) ==
    IF col = 6 \/ out.panic THEN out
    ELSE LET x == col * 32
             y == row * 32
             tile_index == m.map[row + 1][col + 1]
         IN IF tile_index \notin DOMAIN m.tiles
            THEN [out EXCEPT !.panic = TRUE]
            ELSE draw_cols(m, row, col + 1,
                           [out EXCEPT !.cmds = Append(@, Tile_draw(m.tiles[tile_index], x, y))])

\* the outer loop of draw, taking the rows from the last to the first
RECURSIVE draw_rows_reversed(_, _, _)
draw_rows_reversed(m, row, out) ==
    IF row = 6 \/ out.panic THEN out
    ELSE draw_rows_reversed(m, row + 1, draw_cols(m, 5 - row, 0, out))

\* the outer loop of draw from row row on
RECURSIVE draw_rows(_, _, _)
draw_rows(m, row, out) ==
    IF row = 6 \/ out.panic THEN out
    ELSE draw_rows(m, row + 1, draw_cols(m, row, 0, out))

\* the commands one call of draw issues, and whether it panicked
draw(cam, m) ==
    draw_rows(m, 0,
        [cmds |-> <<[op |-> "clear", color |-> <<769, 812, 631>>],
                    [op |-> "set_transform_matrix", matrix |-> cam.matrix]>>,
         panic |-> FALSE])

\* event with the width and the height of the Resized event exchanged
event_swapped(cam, e) ==
    IF e.type = "Resized"
    THEN Camera_update(Camera_set_viewport_size(cam, AsF32(e.height), AsF32(e.width)))
    ELSE cam

\* the camera after event has handled e
event(cam, e) ==
    IF e.type = "Resized"
    THEN Camera_update(Camera_set_viewport_size(cam, AsF32(e.width), AsF32(e.height)))
    ELSE cam

----------------------------------------------------------------------------
(* The program *)

WindowSizes == {<<800, 600>>, <<1024, 768>>}

Events ==
    {[type |-> "Resized", width |-> sz[1], height |-> sz[2]] : sz \in WindowSizes}
    \cup {[type |-> "FocusLost"]}

Init ==
    /\ desc \in Descriptions
    /\ phase = "boot"
    /\ camera = None
    /\ map = NoMap
    /\ frame = <<>>
    /\ prevFrame = <<>>
    /\ resized = None
    /\ between = None
    /\ tpc = "off"
    /\ grid_in = None
    /\ iso = None
    /\ grid_out = None

\* GameState::new, run once by the context before the loop starts
GameState_new ==
    /\ phase = "boot"
    /\ camera' = NewCamera
    /\ map' = Map_from_json(desc)
    /\ phase' = IF map' = NoMap THEN "load_panic" ELSE "running"
    /\ UNCHANGED <<desc, frame, prevFrame, resized, between, pureVars>>

\* draw that takes each tile it draws out of the registry
GameState_draw_taking ==
    /\ phase = "running"
    /\ LET out == draw(camera, map)
       IN /\ frame' = out.cmds
          /\ phase' = IF out.panic THEN "draw_panic" ELSE "running"
    /\ map' = [map EXCEPT !.tiles =
                 [k \in {c \in DOMAIN map.tiles :
                            \A i \in 1..6, j \in 1..6 : map.map[i][j] # c} |-> map.tiles[k]]]
    /\ prevFrame' = frame
    /\ between' = resized
    /\ resized' = None
    /\ UNCHANGED <<desc, camera, pureVars>>

\* one call of GameState::draw
GameState_draw ==
    /\ phase = "running"
    /\ LET out == draw(camera, map)
       IN /\ frame' = out.cmds
          /\ phase' = IF out.panic THEN "draw_panic" ELSE "running"
    /\ prevFrame' = frame
    /\ between' = resized
    /\ resized' = None
    /\ UNCHANGED <<desc, camera, map, pureVars>>

\* one call of GameState::event
GameState_event(e) ==
    /\ phase = "running"
    /\ camera' = event(camera, e)
    /\ resized' = IF e.type = "Resized" THEN <<e.width, e.height>> ELSE resized
    /\ UNCHANGED <<desc, phase, map, frame, prevFrame, between, pureVars>>

Next ==
    \/ GameState_new
    \/ GameState_draw
    \/ \E e \in Events : GameState_event(e)

Spec == Init /\ [][Next]_vars

----------------------------------------------------------------------------
(* The transforms on their own: a grid position is projected and the result
   taken back, or a screen position is taken to the grid directly *)

GridCoords == (-MaxCoord)..MaxCoord

\* screen coordinates: the multiples of 0.5 from -MaxCoord to MaxCoord
ScreenCoords == (-2 * MaxCoord)..(2 * MaxCoord)

InitTransform ==
    /\ desc = None
    /\ phase = "pure"
    /\ camera = None
    /\ map = NoMap
    /\ frame = <<>>
    /\ prevFrame = <<>>
    /\ resized = None
    /\ between = None
    /\ grid_out = None
    /\ \/ /\ tpc = "to_isometric"
          /\ grid_in \in GridCoords \X GridCoords
          /\ iso = None
       \/ /\ tpc = "to_cartesian"
          /\ grid_in = None
          /\ iso \in ScreenCoords \X ScreenCoords

ToIsometric ==
    /\ tpc = "to_isometric"
    /\ iso' = cartesian_to_isometric(grid_in)
    /\ tpc' = "to_cartesian"
    /\ UNCHANGED <<grid_in, grid_out, progVars>>

ToCartesian ==
    /\ tpc = "to_cartesian"
    /\ grid_out' = isometric_to_cartesian(iso)
    /\ tpc' = "done"
    /\ UNCHANGED <<grid_in, iso, progVars>>

NextTransform ==
    \/ ToIsometric
    \/ ToCartesian

SpecTransform == InitTransform /\ [][NextTransform]_vars

----------------------------------------------------------------------------
(* Vocabulary of the properties *)

\* the tile draw commands among the commands f
TileCmds(f) == SelectSeq(f, LAMBDA c : c.op = "draw")

\* the screen position (in halves) of the cell of row r and column c:
\* (c*32 - r*32, (c*32 + r*32) / 2)
CellPosition(r, c) == <<2 * (c * 32 - r * 32), c * 32 + r * 32>>

\* the cell <<row, col>> whose screen position is p
CellAt(p) == <<((2 * p[2] - p[1]) \div 4) \div 32, ((2 * p[2] + p[1]) \div 4) \div 32>>

\* the cells <<row, col>> (0-based) of grid g that hold a code outside 0..6
UnregisteredCells(g) ==
    {rc \in (0..(Len(g) - 1)) \X (0..6) :
        /\ rc[2] < Len(g[rc[1] + 1])
        /\ g[rc[1] + 1][rc[2] + 1] \notin 0..6}

\* cell a comes before cell b in row-major order
RowMajorBefore(a, b) == a[1] < b[1] \/ (a[1] = b[1] /\ a[2] < b[2])

\* the number of cells that come before cell a in row-major order
RowMajorIndex(a) == 6 * a[1] + a[2]

\* the first cell of g in row-major order that holds an unregistered code
FirstUnregistered(g) ==
    CHOOSE a \in UnregisteredCells(g) :
        \A b \in UnregisteredCells(g) : a = b \/ RowMajorBefore(a, b)

----------------------------------------------------------------------------
(* Properties of the transforms, under SpecTransform *)

\* C1: projecting an integer grid position to the screen and taking the
\* result back to the grid returns the position.
C1_RoundTrip ==
    (tpc = "done" /\ grid_in # None) => grid_out = grid_in

C1_Witness ==
    tpc = "done" /\ grid_in = <<-7, 4>> /\ grid_out = <<-7, 4>>

\* C4: isometric_to_cartesian returns floor((2*sy + sx) / 2) and
\* floor((2*sy - sx) / 2) for every screen position (sx, sy), negative
\* ones included.
C4_FloorInverse ==
    tpc = "done" =>
        grid_out = <<(2 * iso[2] + iso[1]) \div 4, (2 * iso[2] - iso[1]) \div 4>>

----------------------------------------------------------------------------
(* Properties of the program, under Spec *)

\* C2: for a loaded grid that holds only the codes 0..6, a call of draw
\* issues exactly 36 tile draw commands, exactly one at the position
\* (col*32 - row*32, (col*32 + row*32) / 2) of each cell (row, col).
C2_ScenarioA ==
    (frame # <<>> /\ UnregisteredCells(map.map) = {}) =>
        LET t == TileCmds(frame)
        IN /\ Len(t) = 36
           /\ \A row \in 0..5, col \in 0..5 :
                Cardinality({i \in 1..Len(t) : t[i].position = CellPosition(row, col)}) = 1

C2_Witness ==
    /\ frame # <<>>
    /\ map.map = BorderGrid
    /\ Len(TileCmds(frame)) = 36

\* C3: loading a description whose layer array holds a code without a
\* registry entry fails at load time, and no tile draw command is ever
\* issued for it.
C3_LoadRejectsUnregistered ==
    (phase # "boot" /\ UnregisteredCells(desc.map) # {}) =>
        (phase = "load_panic" /\ TileCmds(frame) = <<>>)

\* C5: after a Resized event of size (800, 600) the camera's viewport is
\* (800, 600), and the draw that follows it issues the same tile draw
\* commands as the draw before it.
C5_Resize ==
    /\ resized = <<800, 600>> =>
        (camera.viewport_width = AsF32(800) /\ camera.viewport_height = AsF32(600))
    /\ (between = <<800, 600>> /\ prevFrame # <<>>) =>
        TileCmds(frame) = TileCmds(prevFrame)

C5_Witness ==
    /\ between = <<800, 600>>
    /\ prevFrame # <<>>
    /\ Len(TileCmds(frame)) = 36
    /\ frame[2].matrix # prevFrame[2].matrix

\* C6: after a successful load the registry holds, for every code of the
\* description's `tiles` mapping, the clip and the origin the description
\* gives for it.
C6_RegistryFromDescription ==
    phase = "running" =>
        \A k \in DOMAIN desc.tiles :
            /\ k \in DOMAIN map.tiles
            /\ map.tiles[k].clip = desc.tiles[k].clip
            /\ map.tiles[k].origin =
                 Vec2(AsF32(desc.tiles[k].origin.x), AsF32(desc.tiles[k].origin.y))

\* C7: loading a description whose width or height differs from the 6 by 6
\* shape of its layer array fails: no map is built and nothing is drawn.
C7_DimensionMismatchFails ==
    (/\ phase # "boot"
     /\ Len(desc.map) = 6
     /\ \A i \in 1..Len(desc.map) : Len(desc.map[i]) = 6
     /\ (desc.width # 6 \/ desc.height # 6)) =>
        (phase = "load_panic" /\ map = NoMap /\ frame = <<>>)

\* C8: once the map is loaded, no draw and no event changes the registry
\* or the grid, nor anything of the camera but its viewport (and the
\* matrix derived from it).
C8_ReadOnlyAfterLoad ==
    [][phase = "running" =>
        /\ map' = map
        /\ camera'.position = camera.position]_vars

C8_Witness ==
    /\ phase = "running"
    /\ prevFrame # <<>>
    /\ between # None
    /\ resized # None
    /\ map = [tiles |-> BuiltTiles("tiles.png"), map |-> desc.map]

\* C9: a call of draw issues the clear first, the camera transform second
\* and tile draw commands from then on, and the command of one cell comes
\* before the command of another exactly when the one cell comes before the
\* other in row-major order.
C9_FrameOrder ==
    frame # <<>> =>
        /\ frame[1].op = "clear"
        /\ frame[2].op = "set_transform_matrix"
        /\ \A i \in 3..Len(frame) :
            /\ frame[i].op = "draw"
            /\ CellAt(frame[i].position) \in (0..5) \X (0..5)
            /\ frame[i].position =
                 CellPosition(CellAt(frame[i].position)[1], CellAt(frame[i].position)[2])
            /\ frame[i].clip =
                 map.tiles[map.map[CellAt(frame[i].position)[1] + 1]
                                  [CellAt(frame[i].position)[2] + 1]].clip
        /\ \A i, j \in 3..Len(frame) :
            i < j <=> RowMajorBefore(CellAt(frame[i].position), CellAt(frame[j].position))

C9_Witness ==
    /\ Len(frame) = 38
    /\ phase = "running"
    /\ CellAt(frame[3].position) = <<0, 0>>
    /\ CellAt(frame[9].position) = <<1, 0>>
    /\ CellAt(frame[38].position) = <<5, 5>>

\* C10: when the loaded grid holds a code outside 0..6, a call of draw
\* panics at the first such cell in row-major order: it has issued the
\* clear, the transform and the tile draw command of every cell before that
\* one, and none for that cell or a later one.
C10_PartialScene ==
    (frame # <<>> /\ UnregisteredCells(map.map) # {}) =>
        LET t == TileCmds(frame)
            first == FirstUnregistered(map.map)
        IN /\ phase = "draw_panic"
           /\ frame[1].op = "clear"
           /\ Len(frame) = Len(t) + 2
           /\ Len(t) = RowMajorIndex(first)
           /\ \A row \in 0..5, col \in 0..5 :
                RowMajorBefore(<<row, col>>, first) =>
                    t[RowMajorIndex(<<row, col>>) + 1].position = CellPosition(row, col)

C10_Witness ==
    /\ phase = "draw_panic"
    /\ Cardinality(UnregisteredCells(map.map)) = 2
    /\ Len(TileCmds(frame)) = 8
    /\ FirstUnregistered(map.map) = <<1, 2>>

====
